---- MODULE Spec2Model ----
(***************************************************************************)
(* State-machine model of the http_py cache backends (InMemoryCache,      *)
(* DatabaseCache, RedisCache) and of the rate-limiter quota engine that    *)
(* reads through the in-process cache.                                     *)
(***************************************************************************)
EXTENDS Integers, Sequences, FiniteSets, TLC

\* ---------------------------------------------------------------- bounds
\* The simulated clock runs over 0..MaxTime (seconds).
MaxTime == 2
\* Callers pass expiration_in_seconds in 0..MaxTtl.
MaxTtl == 2
\* InMemoryCache(max_size=MaxSize).
MaxSize == 2

\* ---------------------------------------------------------------- values
\* Python values the callers hand to the caches.  None is the absent
\* sentinel; the others are an int and two strs, one of which reads as JSON.
None == [t |-> "NoneType", v |-> ""]
IntOne == [t |-> "int", v |-> "1"]
StrOne == [t |-> "str", v |-> "1"]
StrA == [t |-> "str", v |-> "a"]
\* InMemoryCache keeps the object itself, so two values tell its cases apart;
\* the store-backed caches serialise, so they get all three.
MemValues == {IntOne, StrA}
Values == {IntOne, StrOne, StrA}

\* Keys are strings, modelled as sequences of characters, so that the
\* f-string of a prefix and a key is their concatenation.
Keys == {<<"k">>, <<"u", "k">>, <<"j">>}
Ttls == 0..MaxTtl

\* Markers for what an operation returned.
Ok == [t |-> "returned", v |-> "None"]
PyTrue == [t |-> "bool", v |-> "True"]
PyFalse == [t |-> "bool", v |-> "False"]
ValueError == [t |-> "raised", v |-> "ValueError"]
PyBool(b) == IF b THEN PyTrue ELSE PyFalse

NoKey == <<>>
\* The record of one step: the call, its key and value argument, what it returned
\* and the clock reading it worked with.
Step(op, key, arg, result, at) ==
    [op |-> op, key |-> key, arg |-> arg, result |-> result, at |-> at]
Idle == Step("init", NoKey, None, Ok, 0)

VARIABLES
    backend,    \* which implementation of the cache contract was constructed
    now,        \* int(time.time())
    cache,      \* InMemoryCache._cache: key -> CacheItem
    last,       \* the step just taken: the call, its arguments, what it returned
    lastSet,    \* InMemoryCache, per key: the item of the last successful
                \* set(k, ..) not followed by remove_item(k) or clear()
    dropped,    \* InMemoryCache: the keys the step just taken took out of the
                \* map, whether that step ran the capacity sweep, and
                \* whether a set replaced an item that expired later
    table,      \* public.cache: hashed key -> row
    dbget,      \* per client: where its DatabaseCache.get call stands
    rstore,     \* the Redis keyspace: key -> [text, exp], with the prefix
                \* of the instance the key was written through
    rprefix,    \* per RedisCache instance: its _prefix
    rcall,      \* per RedisCache instance: its call in flight, if any, with
                \* whether the key was absent when the call was made
    race,       \* per Redis key: the set_with_nx calls answered since the key
                \* was last absent with no other writer
    tally,      \* per Redis key: the sum of the signed amounts of the
                \* increment and decrement calls answered
    engine,     \* which middleware serves: http_py.rate_limiter,
                \* modules.rate_limiter or http_py.request_logger
    CACHE,      \* rate_limiter/utils.py: CACHE = InMemoryCache(), its _cache
    rules,      \* the rows of table rate_limiter_rule
    usage,      \* the rows of table rate_limiter_request: row -> how many
    req,        \* per request: where the middleware stands with it
    prior,      \* the usage rows there were before the first request
    overlap     \* whether a request arrived while another was in the middleware

vars == <<backend, now, cache, last, lastSet, dropped, table, dbget,
          rstore, rprefix, rcall, race, tally, engine, CACHE, rules, usage, req, prior, overlap>>
memVars == <<cache, lastSet, dropped>>
dbVars == <<table, dbget>>
redisVars == <<rstore, rprefix, rcall, race, tally>>
quotaVars == <<engine, CACHE, rules, usage, req, prior, overlap>>
contractVars == <<backend, cache, last, lastSet, dropped, table, dbget,
                  rstore, rprefix, rcall, race, tally>>

\* ------------------------------------------------------- cache/models.py
CacheItem(value, expires_at) == [value |-> value, expires_at |-> expires_at]

\* -------------------------------------------------------- cache/utils.py
is_cache_item_valid(cache_item, t) ==
    /\ cache_item.value # None
    /\ t < cache_item.expires_at

\* ---------------------------------------------- cache/in_memory_cache.py
Pop(c, key) == [k \in DOMAIN c \ {key} |-> c[k]]
Put(c, key, item) == [k \in DOMAIN c \cup {key} |-> IF k = key THEN item ELSE c[k]]
EmptyCache == [k \in {} |-> None]

\* _clean: drop every item that is not valid at time t.
MemClean_inverted(c, t) ==
    [k \in {key \in DOMAIN c : ~is_cache_item_valid(c[key], t)} |-> c[k]]

MemClean(c, t) ==
    [k \in {key \in DOMAIN c : is_cache_item_valid(c[key], t)} |-> c[k]]

\* The map after set(key, value, ttl) with a non-None value.
\* set: "if key not in self._cache and len(self._cache) >= self.max_size".
MemSetSweeps(c, max_size, key) ==
    key \notin DOMAIN c /\ Cardinality(DOMAIN c) >= max_size

MemSetStore_evict(c, max_size, key, value, ttl, t) ==
    LET cleaned == IF MemSetSweeps(c, max_size, key) THEN EmptyCache ELSE c
    IN  Put(cleaned, key, CacheItem(value, t + ttl))

\* "if key not in self._cache and len(self._cache) >= self.max_size:
\* self._clean()": the map the new item is put into.  Nothing is done about
\* a map the sweep leaves full.
MemSetRoom_evict_one(c, max_size, key, t) ==
    LET cleaned == IF MemSetSweeps(c, max_size, key) THEN MemClean(c, t) ELSE c
    IN  IF MemSetSweeps(c, max_size, key) /\ Cardinality(DOMAIN cleaned) >= max_size
        THEN Pop(cleaned, CHOOSE j \in DOMAIN cleaned : TRUE)
        ELSE cleaned

MemSetRoom(c, max_size, key, t) ==
    IF MemSetSweeps(c, max_size, key) THEN MemClean(c, t) ELSE c

MemSetStore(c, max_size, key, value, ttl, t) ==
    Put(MemSetRoom(c, max_size, key, t), key, CacheItem(value, t + ttl))

\* What get(key) returns, and the map it leaves.
MemGetResult(c, key, t) ==
    IF key \notin DOMAIN c THEN None
    ELSE IF is_cache_item_valid(c[key], t) THEN c[key].value
    ELSE None

MemGetStore_keep(c, key, t) == c

MemGetStore(c, key, t) ==
    IF key \in DOMAIN c /\ ~is_cache_item_valid(c[key], t) THEN Pop(c, key) ELSE c

\* What exists(key) returns, and the map it leaves.
MemExistsResult(c, key, t) ==
    /\ key \in DOMAIN c
    /\ is_cache_item_valid(c[key], t)

MemExistsStore(c, key, t) ==
    IF key \in DOMAIN c /\ ~is_cache_item_valid(c[key], t) THEN Pop(c, key) ELSE c

MemRemoveStore_all(c, key) == EmptyCache

MemRemoveStore(c, key) == Pop(c, key)

NoSet == [k \in Keys |-> None]
NoDrop == [sweep |-> FALSE, keys |-> {}, old |-> ""]
Drop(sweep, c, d) == [sweep |-> sweep, keys |-> DOMAIN c \ DOMAIN d, old |-> ""]
\* The same for a set, which notes when the key held an item that expired
\* later than the one now stored.
DropSet(sweep, c, d, key) ==
    [sweep |-> sweep, keys |-> DOMAIN c \ DOMAIN d,
     old |-> IF key \in DOMAIN c /\ c[key].expires_at > d[key].expires_at
             THEN "later" ELSE ""]

MemSet_unguarded(key, value, ttl) ==
    /\ backend = "memory"
    /\ cache' = MemSetStore(cache, MaxSize, key, value, ttl, now)
    /\ last' = Step("set", key, value, Ok, now)
    /\ lastSet' = [lastSet EXCEPT ![key] = CacheItem(value, now + ttl)]
    /\ dropped' = DropSet(MemSetSweeps(cache, MaxSize, key), cache, cache', key)
    /\ UNCHANGED <<quotaVars, backend, now, dbVars, redisVars>>

MemSet(key, value, ttl) ==
    /\ backend = "memory"
    /\ IF value = None
       THEN /\ last' = Step("set", key, value, ValueError, now)
            /\ dropped' = NoDrop
            /\ UNCHANGED <<cache, lastSet>>
       ELSE /\ cache' = MemSetStore(cache, MaxSize, key, value, ttl, now)
            /\ last' = Step("set", key, value, Ok, now)
            /\ lastSet' = [lastSet EXCEPT ![key] = CacheItem(value, now + ttl)]
            /\ dropped' = DropSet(MemSetSweeps(cache, MaxSize, key), cache, cache', key)
    /\ UNCHANGED <<quotaVars, backend, now, dbVars, redisVars>>

MemGet(key) ==
    /\ backend = "memory"
    /\ last' = Step("get", key, None, MemGetResult(cache, key, now), now)
    /\ cache' = MemGetStore(cache, key, now)
    /\ dropped' = Drop(FALSE, cache, cache')
    /\ UNCHANGED <<quotaVars, backend, now, lastSet, dbVars, redisVars>>

MemRemoveItem(key) ==
    /\ backend = "memory"
    /\ cache' = MemRemoveStore(cache, key)
    /\ last' = Step("remove_item", key, None, Ok, now)
    /\ lastSet' = [lastSet EXCEPT ![key] = None]
    /\ dropped' = Drop(FALSE, cache, cache')
    /\ UNCHANGED <<quotaVars, backend, now, dbVars, redisVars>>

MemExists(key) ==
    /\ backend = "memory"
    /\ last' = Step("exists", key, None, PyBool(MemExistsResult(cache, key, now)), now)
    /\ cache' = MemExistsStore(cache, key, now)
    /\ dropped' = Drop(FALSE, cache, cache')
    /\ UNCHANGED <<quotaVars, backend, now, lastSet, dbVars, redisVars>>

MemClear ==
    /\ backend = "memory"
    /\ cache' = EmptyCache
    /\ last' = Step("clear", NoKey, None, Ok, now)
    /\ lastSet' = NoSet
    /\ dropped' = Drop(FALSE, cache, cache')
    /\ UNCHANGED <<quotaVars, backend, now, dbVars, redisVars>>

\* ------------------------------------------------ cache/database_cache.py
DbClients == {"c1"}
DbKeys == {<<"k">>, <<"j">>}
DataError == [t |-> "raised", v |-> "DataError"]
NoCall == [stage |-> "idle", key |-> NoKey, t |-> 0]

\* _hash_key: SHA-256 of the key, collision-free on the keys of the model.
_hash_key(key) == <<"sha256">> \o key

\* json.dumps of a non-str value.
json_dumps(value) == value.v

\* The integers a counter of the model takes, and the decimal text of one.
MaxCounter == 2
Amounts == {1, 2}
CounterRange == -(MaxCounter + 4)..(MaxCounter + 4)
IsIntText(text) == \E n \in CounterRange : ToString(n) = text
ParseInt(text) == CHOOSE n \in CounterRange : ToString(n) = text

\* Whether a text is a JSON document, and the Python value it reads as
\* (json.loads; the texts of the model are integers in decimal and "a").
IsJson(text) == IsIntText(text)
json_loads(text) == [t |-> "int", v |-> text]

\* set: "json.dumps(value) if not isinstance(value, str) else value".
DbSerialize(value) == IF value.t = "str" THEN value.v ELSE json_dumps(value)

Row(key, value, expires_at) ==
    [plain_key |-> key, value |-> value, expires_at |-> expires_at]

\* INSERT ... ON CONFLICT (key) DO UPDATE: one row per hashed key.  The value
\* column is JSONB: the text is read as JSON by the store, which refuses a
\* text that is not JSON.
DbUpsert_do_nothing(tb, key, text, expires_at) ==
    IF _hash_key(key) \in DOMAIN tb THEN tb
    ELSE Put(tb, _hash_key(key), Row(key, json_loads(text), expires_at))

DbUpsert(tb, key, text, expires_at) ==
    Put(tb, _hash_key(key), Row(key, json_loads(text), expires_at))

\* DELETE FROM public.cache WHERE key = hashed key.
DbDelete(tb, key) == Pop(tb, _hash_key(key))

\* get's test on the row it read, with the clock it sampled before the read.
DbExpired(row, t) == t >= row.expires_at

\* exists: SELECT 1 ... WHERE key = .. AND expires_at > now.
DbExistsResult(tb, key, t) ==
    /\ _hash_key(key) \in DOMAIN tb
    /\ tb[_hash_key(key)].expires_at > t

\* cleanup_expired: DELETE ... WHERE expires_at <= now.
DbCleanup(tb, t) == [h \in {x \in DOMAIN tb : ~(tb[x].expires_at <= t)} |-> tb[h]]

DbSet(key, value, ttl) ==
    /\ backend = "database"
    /\ IF value = None
       THEN /\ last' = Step("set", key, value, ValueError, now)
            /\ UNCHANGED table
       ELSE IF ~IsJson(DbSerialize(value))
       THEN /\ last' = Step("set", key, value, DataError, now)
            /\ UNCHANGED table
       ELSE /\ table' = DbUpsert(table, key, DbSerialize(value), now + ttl)
            /\ last' = Step("set", key, value, Ok, now)
    /\ UNCHANGED <<quotaVars, backend, now, memVars, dbget, redisVars>>

\* get, first part: hash the key and sample the clock.
DbGetBegin(c, key) ==
    /\ backend = "database"
    /\ dbget[c].stage = "idle"
    /\ dbget' = [dbget EXCEPT ![c] = [stage |-> "select", key |-> key, t |-> now]]
    /\ last' = Step("get:begin", key, None, Ok, now)
    /\ UNCHANGED <<quotaVars, backend, now, memVars, table, redisVars>>

\* get, second part: the SELECT and the test on its result.
DbGetSelect(c) ==
    LET key == dbget[c].key
        h == _hash_key(key)
    IN  /\ backend = "database"
        /\ dbget[c].stage = "select"
        /\ IF h \notin DOMAIN table
           THEN /\ last' = Step("get", key, None, None, dbget[c].t)
                /\ dbget' = [dbget EXCEPT ![c] = NoCall]
           ELSE IF DbExpired(table[h], dbget[c].t)
           THEN /\ dbget' = [dbget EXCEPT ![c].stage = "delete"]
                /\ last' = Step("get:expired", key, None, Ok, dbget[c].t)
           ELSE /\ last' = Step("get", key, None, table[h].value, dbget[c].t)
                /\ dbget' = [dbget EXCEPT ![c] = NoCall]
        /\ UNCHANGED <<quotaVars, backend, now, memVars, table, redisVars>>

\* get, third part: remove_item(key) for the expired row, then return None.
DbGetDelete(c) ==
    /\ backend = "database"
    /\ dbget[c].stage = "delete"
    /\ table' = DbDelete(table, dbget[c].key)
    /\ last' = Step("get", dbget[c].key, None, None, dbget[c].t)
    /\ dbget' = [dbget EXCEPT ![c] = NoCall]
    /\ UNCHANGED <<quotaVars, backend, now, memVars, redisVars>>

DbRemoveItem(key) ==
    /\ backend = "database"
    /\ table' = DbDelete(table, key)
    /\ last' = Step("remove_item", key, None, Ok, now)
    /\ UNCHANGED <<quotaVars, backend, now, memVars, dbget, redisVars>>

DbExists(key) ==
    /\ backend = "database"
    /\ last' = Step("exists", key, None, PyBool(DbExistsResult(table, key, now)), now)
    /\ UNCHANGED <<quotaVars, backend, now, memVars, table, dbget, redisVars>>

\* clear: TRUNCATE TABLE public.cache.
DbClear ==
    /\ backend = "database"
    /\ table' = EmptyCache
    /\ last' = Step("clear", NoKey, None, Ok, now)
    /\ UNCHANGED <<quotaVars, backend, now, memVars, dbget, redisVars>>

DbCleanupExpired ==
    /\ backend = "database"
    /\ table' = DbCleanup(table, now)
    /\ last' = Step("cleanup_expired", NoKey, None, [t |-> "int",
                            v |-> ToString(Cardinality(DOMAIN table \ DOMAIN table'))], now)
    /\ UNCHANGED <<quotaVars, backend, now, memVars, dbget, redisVars>>

\* --------------------------------------------------- cache/redis_cache.py
RedisClients == {"r1", "r2"}
RedisKeys == {<<"k">>, <<"u", "k">>}
\* The keyspace of the server, in the order its SCAN walks it.
Slots == << <<"c", "k">>, <<"c", "u", "k">>, <<"c", "u", "u", "k">>,
           <<"d", "k">>, <<"d", "u", "k">>, <<"k">> >>
PhysKeys == {Slots[i] : i \in 1..Len(Slots)}
\* How many slots one SCAN call walks.
ScanCount == 2

NxValues == {IntOne, StrA}
NxTtls == {MaxTtl}
ResponseError == [t |-> "raised", v |-> "ResponseError"]
NoRace == [open |-> TRUE, done |-> 0, won |-> 0, text |-> "", raced |-> FALSE]
ClosedRace == [open |-> FALSE, done |-> 0, won |-> 0, text |-> "", raced |-> FALSE]
RIdle == [op |-> "idle", stage |-> "", key |-> NoKey, text |-> "", ttl |-> 0,
          cursor |-> 0, batch |-> {}, absent |-> FALSE, amount |-> 0]

\* _make_key: f"{self._prefix}{key}".
_make_key(prefix, key) == prefix \o key

\* set / set_with_nx: a str goes as it is, anything else through json.dumps.
RedisSerialize(value) == IF value.t = "str" THEN value.v ELSE json_dumps(value)

\* get: json.loads, and the raw text when that fails.
RedisDeserialize(text) ==
    IF IsJson(text) THEN json_loads(text) ELSE [t |-> "str", v |-> text]

\* The server: a key is there until its expiry time.
RedisLive(store, t) == [pk \in {x \in DOMAIN store : store[x].exp > t} |-> store[pk]]
RedisEntry(text, exp, via) == [text |-> text, exp |-> exp, via |-> via]

\* clear: the pattern f"{prefix}*" matches the keys that start with the prefix.
Matches(prefix, pk) ==
    /\ Len(pk) >= Len(prefix)
    /\ SubSeq(pk, 1, Len(prefix)) = prefix

\* SCAN cursor MATCH pattern: the slots walked, the keys returned, the next cursor.
ScanEnd(cursor) == IF cursor + ScanCount >= Len(Slots) THEN Len(Slots) ELSE cursor + ScanCount
ScanKeys_all(store, cursor, prefix) ==
    {Slots[i] : i \in {j \in (cursor + 1)..ScanEnd(cursor) : Slots[j] \in DOMAIN store}}

ScanKeys(store, cursor, prefix) ==
    {Slots[i] : i \in {j \in (cursor + 1)..ScanEnd(cursor) :
                        Slots[j] \in DOMAIN store /\ Matches(prefix, Slots[j])}}
ScanNext(cursor) == IF ScanEnd(cursor) = Len(Slots) THEN 0 ELSE ScanEnd(cursor)

\* The race bookkeeping of the keys in `gone` starts over.
RaceReset(rc, gone, fresh) == [pk \in PhysKeys |-> IF pk \in gone THEN fresh ELSE rc[pk]]
Min2(n) == IF n >= 2 THEN 2 ELSE n
\* `raced`: a call that found the key absent when it was made was answered
\* after another call had created the key.
RaceAnswer(r, won, text, absent) ==
    [open |-> r.open, done |-> Min2(r.done + 1),
     won |-> IF won THEN Min2(r.won + 1) ELSE r.won,
     text |-> IF won THEN text ELSE r.text,
     raced |-> r.raced \/ (~won /\ absent /\ r.won >= 1)]

RedisSet(c, key, value, ttl) ==
    LET pk == _make_key(rprefix[c], key) IN
    /\ backend = "redis"
    /\ rcall[c] = RIdle
    /\ IF value = None
       THEN /\ last' = Step("set", key, value, ValueError, now)
            /\ UNCHANGED <<rstore, race>>
       ELSE IF ttl <= 0
       THEN /\ last' = Step("set", key, value, ResponseError, now)
            /\ UNCHANGED <<rstore, race>>
       ELSE /\ rstore' = Put(rstore, pk, RedisEntry(RedisSerialize(value), now + ttl,
                                                     rprefix[c]))
            /\ last' = Step("set", key, value, Ok, now)
            /\ race' = RaceReset(race, {pk}, ClosedRace)
    /\ UNCHANGED <<quotaVars, backend, now, memVars, dbVars, rprefix, tally, rcall>>

RedisGet(c, key) ==
    LET pk == _make_key(rprefix[c], key) IN
    /\ backend = "redis"
    /\ rcall[c] = RIdle
    /\ last' = Step("get", key, None, IF pk \in DOMAIN rstore
                           THEN RedisDeserialize(rstore[pk].text) ELSE None, now)
    /\ UNCHANGED <<quotaVars, backend, now, memVars, dbVars, redisVars>>

RedisRemoveItem(c, key) ==
    LET pk == _make_key(rprefix[c], key) IN
    /\ backend = "redis"
    /\ rcall[c] = RIdle
    /\ rstore' = Pop(rstore, pk)
    /\ race' = RaceReset(race, {pk}, NoRace)
    /\ last' = Step("remove_item", key, None, Ok, now)
    /\ UNCHANGED <<quotaVars, backend, now, memVars, dbVars, rprefix, tally, rcall>>

RedisExists(c, key) ==
    /\ backend = "redis"
    /\ rcall[c] = RIdle
    /\ last' = Step("exists", key, None, PyBool(_make_key(rprefix[c], key) \in DOMAIN rstore), now)
    /\ UNCHANGED <<quotaVars, backend, now, memVars, dbVars, redisVars>>

\* set_with_nx, first part: the None test, the key, the text; the command is
\* then on its way to the server.
RedisSetNxCall(c, key, value, ttl) ==
    /\ backend = "redis"
    /\ rcall[c] = RIdle
    /\ \A d \in RedisClients : rcall[d].op # "clear"
    /\ IF value = None
       THEN /\ last' = Step("set_with_nx", key, value, ValueError, now)
            /\ UNCHANGED rcall
       ELSE /\ rcall' = [rcall EXCEPT ![c] =
                            [RIdle EXCEPT !.op = "set_with_nx", !.key = key,
                                          !.text = RedisSerialize(value), !.ttl = ttl,
                                          !.absent = _make_key(rprefix[c], key)
                                                         \notin DOMAIN rstore]]
            /\ last' = Step("set_with_nx:call", key, value, Ok, now)
    /\ UNCHANGED <<quotaVars, backend, now, memVars, dbVars, rstore, rprefix, tally, race>>

\* SET name value EX ttl NX at the server: the reply is None when the key is there.
SetNxCreates_always(store, pk) == TRUE

SetNxCreates(store, pk) == pk \notin DOMAIN store

\* set_with_nx: "return result is not None".
SetNxResult(created) == created

\* set_with_nx, second part: the server runs the command and the call returns.
RedisSetNxExec(c) ==
    LET key == rcall[c].key
        pk == _make_key(rprefix[c], key)
        created == SetNxCreates(rstore, pk)
    IN  /\ backend = "redis"
        /\ rcall[c].op = "set_with_nx"
        /\ IF rcall[c].ttl <= 0
           THEN /\ last' = Step("set_with_nx", key, RedisDeserialize(rcall[c].text), ResponseError, now)
                /\ UNCHANGED <<rstore, race>>
           ELSE /\ rstore' = IF created
                             THEN Put(rstore, pk, RedisEntry(rcall[c].text, now + rcall[c].ttl,
                                                             rprefix[c]))
                             ELSE rstore
                /\ last' = Step("set_with_nx", key, RedisDeserialize(rcall[c].text),
                                  PyBool(SetNxResult(created)), now)
                /\ race' = [race EXCEPT ![pk] =
                               RaceAnswer(race[pk], SetNxResult(created), rcall[c].text,
                                          rcall[c].absent)]
        /\ rcall' = [rcall EXCEPT ![c] = RIdle]
        /\ UNCHANGED <<quotaVars, backend, now, memVars, dbVars, rprefix, tally>>

\* INCRBY / DECRBY at the server: a missing key counts as 0, the sum is stored
\* as decimal text and the expiry of the key, if any, stays (a key the command
\* creates has none: it outlives the clock of the model).
CounterValue(store, pk) == IF pk \in DOMAIN store THEN ParseInt(store[pk].text) ELSE 0

CounterApply_overwrite(store, pk, delta, via) ==
    Put(store, pk, RedisEntry(ToString(delta),
                              IF pk \in DOMAIN store THEN store[pk].exp ELSE MaxTime + 1, via))

CounterApply(store, pk, delta, via) ==
    Put(store, pk, RedisEntry(ToString(CounterValue(store, pk) + delta),
                              IF pk \in DOMAIN store THEN store[pk].exp ELSE MaxTime + 1, via))

\* The signed amounts of the calls on pk that are on their way to the server.
RECURSIVE Pending(_, _, _)
Pending(rc, pk, clients) ==
    IF clients = {} THEN 0
    ELSE LET c == CHOOSE x \in clients : TRUE
         IN  (IF rc[c].op \in {"increment", "decrement"}
                    /\ _make_key(rprefix[c], rc[c].key) = pk
              THEN rc[c].amount ELSE 0) + Pending(rc, pk, clients \ {c})

\* increment / decrement, first part: the key; the command is then on its way
\* to the server.  The counters of the model stay within MaxCounter of zero.
RedisIncrCall(c, op, key, amount) ==
    LET pk == _make_key(rprefix[c], key)
        delta == IF op = "increment" THEN amount ELSE -amount
        reach == CounterValue(rstore, pk) + Pending(rcall, pk, RedisClients) + delta
    IN  /\ backend = "redis"
        /\ rcall[c] = RIdle
        /\ pk \in DOMAIN rstore => IsIntText(rstore[pk].text)
        /\ reach \in -MaxCounter..MaxCounter
        /\ rcall' = [rcall EXCEPT ![c] = [RIdle EXCEPT !.op = op, !.key = key,
                                                       !.amount = delta]]
        /\ last' = Step(op \o ":call", key, [t |-> "int", v |-> ToString(amount)], Ok, now)
        /\ UNCHANGED <<quotaVars, backend, now, memVars, dbVars, rstore, rprefix, race, tally>>

\* increment / decrement, second part: the server runs INCRBY or DECRBY and the
\* call returns the reply.
RedisIncrExec(c) ==
    LET key == rcall[c].key
        pk == _make_key(rprefix[c], key)
    IN  /\ backend = "redis"
        /\ rcall[c].op \in {"increment", "decrement"}
        /\ IF pk \in DOMAIN rstore /\ ~IsIntText(rstore[pk].text)
           THEN /\ last' = Step(rcall[c].op, key, None, ResponseError, now)
                /\ UNCHANGED <<rstore, tally>>
           ELSE /\ rstore' = CounterApply(rstore, pk, rcall[c].amount, rprefix[c])
                /\ tally' = [tally EXCEPT ![pk] = @ + rcall[c].amount]
                /\ last' = Step(rcall[c].op, key, None,
                                 [t |-> "int", v |-> rstore'[pk].text], now)
        /\ rcall' = [rcall EXCEPT ![c] = RIdle]
        /\ UNCHANGED <<quotaVars, backend, now, memVars, dbVars, rprefix, race>>

\* clear: cursor = 0, then the loop.
RedisClearBegin(c) ==
    /\ backend = "redis"
    /\ \A d \in RedisClients : rcall[d] = RIdle
    /\ rcall' = [rcall EXCEPT ![c] = [RIdle EXCEPT !.op = "clear", !.stage = "scan"]]
    /\ last' = Step("clear:begin", NoKey, None, Ok, now)
    /\ UNCHANGED <<quotaVars, backend, now, memVars, dbVars, rstore, rprefix, tally, race>>

\* clear: "cursor, keys = await self._client.scan(cursor=cursor, match=pattern)",
\* and the tests that follow when there are no keys to delete.
RedisClearScan(c) ==
    LET keys == ScanKeys(rstore, rcall[c].cursor, rprefix[c])
        cursor == ScanNext(rcall[c].cursor)
    IN  /\ backend = "redis"
        /\ rcall[c].op = "clear"
        /\ rcall[c].stage = "scan"
        /\ IF keys # {}
           THEN /\ rcall' = [rcall EXCEPT ![c].stage = "delete", ![c].cursor = cursor,
                                          ![c].batch = keys]
                /\ last' = Step("clear:scan", NoKey, None, Ok, now)
           ELSE IF cursor = 0
           THEN /\ rcall' = [rcall EXCEPT ![c] = RIdle]
                /\ last' = Step("clear", NoKey, None, Ok, now)
           ELSE /\ rcall' = [rcall EXCEPT ![c].cursor = cursor]
                /\ last' = Step("clear:scan", NoKey, None, Ok, now)
        /\ UNCHANGED <<quotaVars, backend, now, memVars, dbVars, rstore, rprefix, tally, race>>

\* clear: "await self._client.delete(*keys)", then "if cursor == 0: break".
RedisClearDelete(c) ==
    /\ backend = "redis"
    /\ rcall[c].op = "clear"
    /\ rcall[c].stage = "delete"
    /\ rstore' = [pk \in DOMAIN rstore \ rcall[c].batch |-> rstore[pk]]
    /\ race' = RaceReset(race, rcall[c].batch, NoRace)
    /\ IF rcall[c].cursor = 0
       THEN /\ rcall' = [rcall EXCEPT ![c] = RIdle]
            /\ last' = Step("clear", NoKey, None, Ok, now)
       ELSE /\ rcall' = [rcall EXCEPT ![c].stage = "scan", ![c].batch = {}]
            /\ last' = Step("clear:delete", NoKey, None,
                             [t |-> "int", v |-> ToString(Cardinality(DOMAIN rstore
                                                                        \ DOMAIN rstore'))],
                             now)
    /\ UNCHANGED <<quotaVars, backend, now, memVars, dbVars, rprefix, tally>>

\* The wall clock advances by one second; the server drops the keys whose time
\* has come.
Tick ==
    /\ now < MaxTime
    /\ now' = now + 1
    /\ rstore' = RedisLive(rstore, now + 1)
    /\ race' = RaceReset(race, DOMAIN rstore \ DOMAIN rstore', NoRace)
    /\ last' = Step("tick", NoKey, None, Ok, now + 1)
    /\ dropped' = NoDrop
    /\ UNCHANGED <<quotaVars, backend, cache, lastSet, dbVars, rprefix, tally, rcall>>

\* ---------------------------------------------------------- rate_limiter
\* How many requests arrive, how many the middleware holds at once, and how
\* many usage rows there are at the start at most.
MaxReqs == 3
MaxInFlight == 2
MaxPrior == 1

\* InMemoryCache(max_size=1000), the default CACHE is built with.
DefaultMaxSize == 1000
RULE_CACHING_EXPIRATION_IN_SECONDS == 300

Reqs == 1..MaxReqs
PathA == <<"/", "a">>
PathB == <<"/", "b">>
PathW == <<"/", "w">>
Paths == {PathA, PathB, PathW}
path_whitelist == {PathW}
Product == <<"p">>

\* The clock readings of a run, seconds since the epoch: 1970-01-02 01:01:00
\* and five minutes later.
Instants == {90060, 90360}
\* When the usage rows of the start were written: the day before, an hour
\* before on the same day, and a minute before in the same hour.
PriorTimes == {3600, 86400, 90000}

\* The clock readings the window keys are compared on: the two sides of an
\* hour, a day, a month and a year boundary, of the end of February in a
\* common and in a leap year, and two readings of 2023 and 2024.
WindowInstants ==
    {0, 3599, 3600, 82800, 86399, 86400, 2678399, 2678400, 5097599, 5097600,
     31535999, 31536000, 68169599, 68169600, 68255999, 68256000,
     1700000000, 1700003600, 1709251199, 1709251200}

\* datetime.now(tz=UTC) read off the clock: the proleptic Gregorian calendar
\* date of the day and the hour of the day, for t >= 0.
DateParts(t) ==
    LET z == (t \div 86400) + 719468
        era == z \div 146097
        doe == z - (era * 146097)
        yoe == (doe - (doe \div 1460) + (doe \div 36524) - (doe \div 146096)) \div 365
        doy == doe - ((365 * yoe) + (yoe \div 4) - (yoe \div 100))
        mp == ((5 * doy) + 2) \div 153
        m == IF mp < 10 THEN mp + 3 ELSE mp - 9
    IN  [year |-> yoe + (era * 400) + (IF m <= 2 THEN 1 ELSE 0),
         month |-> m,
         day |-> doy - (((153 * mp) + 2) \div 5) + 1,
         hour |-> (t % 86400) \div 3600]

month_key(t) == (DateParts(t).year * 100) + DateParts(t).month
day_key(t) == (((DateParts(t).year * 100) + DateParts(t).month) * 100) + DateParts(t).day
hour_key_short(t) ==
    ((((DateParts(t).year * 100) + DateParts(t).month) * 100 + DateParts(t).day) * 10)
        + DateParts(t).hour

hour_key(t) ==
    ((((DateParts(t).year * 100) + DateParts(t).month) * 100 + DateParts(t).day) * 100)
        + DateParts(t).hour

\* The fields of the NamedTuples of rate_limiter/types.py.
RuleFields == {"path", "daily_limit", "monthly_limit", "hourly_limit"}
CountFields == {"path", "daily_count", "monthly_count", "hourly_count"}

\* The keyword arguments fetch_rate_limiter_rule builds its RateLimiterRule with.
RuleKwargs(eng, row) ==
    IF eng = "http_py"
    THEN [path |-> row.path, product_name |-> row.product_name,
          daily_limit |-> row.daily_limit, monthly_limit |-> row.monthly_limit,
          hourly_limit |-> row.hourly_limit]
    ELSE [path |-> row.path, daily_limit |-> row.daily_limit,
          monthly_limit |-> row.monthly_limit, hourly_limit |-> row.hourly_limit]

\* The keyword arguments fetch_rate_limiter_count builds its count with.
CountKwargs(eng, path, product, monthly, daily, hourly) ==
    IF eng = "http_py"
    THEN [path |-> path, product_name |-> product, monthly_count |-> monthly,
          daily_count |-> daily, hourly_count |-> hourly]
    ELSE [path |-> path, monthly_count |-> monthly, daily_count |-> daily,
          hourly_count |-> hourly]

\* A NamedTuple takes its own fields as keywords and raises TypeError on others.
Constructs(fields, kwargs) == DOMAIN kwargs = fields

\* cache_key = f"rule:{path}:{product_name}" (http_py), f"rule:{path}" (modules).
RuleKey(eng, path, product) ==
    IF eng = "http_py" THEN <<"rule:">> \o path \o <<":">> \o product
    ELSE <<"rule:">> \o path

CountKey(eng, path, product) ==
    IF eng = "http_py" THEN <<"count:">> \o path \o <<":">> \o product
    ELSE <<"count:">> \o path

\* SELECT ... FROM rate_limiter_rule WHERE path = .. [AND product_name = ..].
RuleSelect(eng, tb, path, product) ==
    {row \in tb : /\ row.path = path
                  /\ eng = "http_py" => row.product_name = product}

\* A row of rate_limiter_request: the INSERT gives the path, the table fills
\* the window columns from the time of the insert.
UsageRow(path, product, t) ==
    [path |-> path, product_name |-> product,
     month |-> month_key(t), day |-> day_key(t), hour |-> hour_key(t)]

RECURSIVE RowCount(_, _)
RowCount(tb, rows) ==
    IF rows = {} THEN 0
    ELSE LET row == CHOOSE x \in rows : TRUE
         IN  tb[row] + RowCount(tb, rows \ {row})

\* SELECT COUNT(*) FROM rate_limiter_request WHERE <window> = <key> AND path = ..
\* [AND product_name = ..], with the key taken from the clock.
CountSelect(eng, tb, window, path, product, t) ==
    RowCount(tb, {row \in DOMAIN tb :
        /\ row.path = path
        /\ eng = "http_py" => row.product_name = product
        /\ CASE window = "monthly" -> row.month = month_key(t)
             [] window = "daily" -> row.day = day_key(t)
             [] window = "hourly" -> row.hour = hour_key(t)})

\* INSERT INTO rate_limiter_request.
UsageInsert(tb, row) ==
    [x \in DOMAIN tb \cup {row} |-> IF x \in DOMAIN tb
                                    THEN (IF x = row THEN tb[x] + 1 ELSE tb[x])
                                    ELSE 1]

\* assert_capacity, after the task group: the checks in their order.
\* "count.monthly_count >= rule.monthly_limit" and its two siblings: a ceiling
\* is met from the count equal to the limit on.
LimitMet_strict(count, limit) == count > limit

LimitMet(count, limit) == count >= limit

DecideReason_hourly_first(rule, count) ==
    IF rule = None THEN "RuleNotFound"
    ELSE IF count = None THEN "Allow"
    ELSE IF count.hourly_count >= rule.hourly_limit THEN "Hourly"
    ELSE IF count.daily_count >= rule.daily_limit THEN "Daily"
    ELSE IF count.monthly_count >= rule.monthly_limit THEN "Monthly"
    ELSE "Allow"

DecideReason(rule, count) ==
    IF rule = None THEN "RuleNotFound"
    ELSE IF count = None THEN "Allow"
    ELSE IF LimitMet(count.monthly_count, rule.monthly_limit) THEN "Monthly"
    ELSE IF LimitMet(count.daily_count, rule.daily_limit) THEN "Daily"
    ELSE IF LimitMet(count.hourly_count, rule.hourly_limit) THEN "Hourly"
    ELSE "Allow"

\* "if path in path_whitelist".
Whitelisted_never(path) == FALSE

Whitelisted(path) == path \in path_whitelist

\* ctx: whether create_service_context / build_context ran for the request;
\* failed: the count sub-query of the request that met a pool timeout, if any;
\* tracked: how many times track_request / save_request was called for it;
\* recfail: what the handler had done when the recorder's INSERT failed, if it did;
\* run: its coroutine is the one the event loop is running (kept where the
\* statements of the cache methods are taken one by one).
NoReq == [pc |-> "new", path |-> NoKey, product |-> NoKey, ctx |-> FALSE, failed |-> "",
          tracked |-> 0, recfail |-> "", run |-> FALSE,
          ruleT |-> "none", rule |-> None,
          countT |-> "none", count |-> None, monthly |-> -1, daily |-> -1, hourly |-> -1,
          decision |-> "", status |-> 0, handled |-> FALSE, hour |-> 0]

InFlight == {s \in Reqs : req[s].pc \notin {"new", "done"}}

\* An exception other than RateLimitException leaves the middleware: the task
\* group cancels what is left of the lookups and the server answers 500.
Raised(r) == [req[r] EXCEPT !.pc = "done", !.decision = "Error", !.status = 500,
                            !.ruleT = "cancelled", !.countT = "cancelled"]

\* The middleware takes the request: the whitelist test, then assert_capacity
\* starts its two tasks, each of which runs up to its first query.  The
\* request logger has no lookups: it builds the context and calls the handler.
ArriveWith(r, path, product) ==
    LET rk == RuleKey(engine, path, product)
        ck == CountKey(engine, path, product)
        rule == MemGetResult(CACHE, rk, now)
        c1 == MemGetStore(CACHE, rk, now)
        count == MemGetResult(c1, ck, now)
        c2 == MemGetStore(c1, ck, now)
    IN  /\ engine \in {"http_py", "modules", "request_logger"}
        /\ req[r].pc = "new"
        /\ \A s \in Reqs : s < r => req[s].pc # "new"
        /\ Cardinality(InFlight) < MaxInFlight
        /\ overlap' = (overlap \/ InFlight # {})
        /\ IF Whitelisted(path)
           THEN /\ req' = [req EXCEPT ![r] = [NoReq EXCEPT !.pc = "handler", !.path = path,
                                                           !.product = product,
                                                           !.decision = "Whitelisted"]]
                /\ UNCHANGED CACHE
           ELSE IF engine = "request_logger"
           THEN /\ req' = [req EXCEPT ![r] = [NoReq EXCEPT !.pc = "handler", !.path = path,
                                                           !.product = product, !.ctx = TRUE,
                                                           !.decision = "Logged"]]
                /\ UNCHANGED CACHE
           ELSE /\ CACHE' = c2
                /\ req' = [req EXCEPT ![r] =
                              [NoReq EXCEPT !.pc = "lookup", !.path = path,
                                            !.product = product, !.ctx = TRUE,
                                            !.ruleT = IF rule # None THEN "done" ELSE "query",
                                            !.rule = rule,
                                            !.countT = IF count # None THEN "done" ELSE "query",
                                            !.count = count]]
        /\ UNCHANGED <<contractVars, now, engine, rules, usage, prior>>

\* The requests of the quota runs all name one product.
Arrive(r, path) == ArriveWith(r, path, Product)

\* fetch_rate_limiter_rule after the cache miss: the SELECT, the NamedTuple,
\* CACHE.set.
RuleQuery(r) ==
    LET rows == RuleSelect(engine, rules, req[r].path, req[r].product)
        row == CHOOSE x \in rows : TRUE
        rule == RuleKwargs(engine, row)
    IN  /\ req[r].pc = "lookup"
        /\ req[r].ruleT = "query"
        /\ IF rows = {}
           THEN /\ req' = [req EXCEPT ![r].ruleT = "done", ![r].rule = None]
                /\ UNCHANGED CACHE
           ELSE IF ~Constructs(RuleFields, rule)
           THEN /\ req' = [req EXCEPT ![r] = Raised(r)]
                /\ UNCHANGED CACHE
           ELSE /\ CACHE' = MemSetStore(CACHE, DefaultMaxSize,
                                        RuleKey(engine, req[r].path, req[r].product),
                                        rule, RULE_CACHING_EXPIRATION_IN_SECONDS, now)
                /\ req' = [req EXCEPT ![r].ruleT = "done", ![r].rule = rule]
        /\ UNCHANGED <<contractVars, now, engine, rules, usage, prior, overlap>>

\* One of the three sub-queries asyncio.gather runs for fetch_rate_limiter_count.
CountQuery(r, window) ==
    /\ req[r].pc = "lookup"
    /\ req[r].countT = "query"
    /\ req[r][window] = -1
    /\ req' = [req EXCEPT ![r][window] =
                  CountSelect(engine, usage, window, req[r].path, req[r].product, now)]
    /\ UNCHANGED <<contractVars, now, engine, CACHE, rules, usage, prior, overlap>>

\* A sub-query meets PoolTimeout: it logs and raises it again, gather hands it
\* to fetch_rate_limiter_count, whose task fails, and the task group cancels
\* the other task and leaves assert_capacity with the error.
CountFailure_zero(r, window) == [req[r] EXCEPT ![window] = 0]

CountFailure(r, window) == [Raised(r) EXCEPT !.decision = "PoolTimeout"]

CountQueryFails(r, window) ==
    /\ req[r].pc = "lookup"
    /\ req[r].countT = "query"
    /\ req[r][window] = -1
    /\ req' = [req EXCEPT ![r] = [CountFailure(r, window) EXCEPT !.failed = window]]
    /\ UNCHANGED <<contractVars, now, engine, CACHE, rules, usage, prior, overlap>>

\* "await asyncio.gather(monthly_count, daily_count, hourly_count)" without
\* return_exceptions: gather hands the first exception to its awaiter and
\* leaves the other two sub-queries scheduled, outside the task group, which
\* knows only the two tasks it created.  A sibling of the failed sub-query
\* that had not finished runs its SELECT on a reader connection after the
\* request has been answered.
CountQueryOrphan(r, window) ==
    /\ req[r].pc = "done"
    /\ req[r].failed \notin {"", window}
    /\ req[r][window] = -1
    /\ req' = [req EXCEPT ![r][window] =
                  CountSelect(engine, usage, window, req[r].path, req[r].product, now)]
    /\ UNCHANGED <<contractVars, now, engine, CACHE, rules, usage, prior, overlap>>

\* fetch_rate_limiter_count after the gather: the NamedTuple, CACHE.set.
CountAssemble(r) ==
    LET count == CountKwargs(engine, req[r].path, req[r].product,
                             req[r].monthly, req[r].daily, req[r].hourly)
    IN  /\ req[r].pc = "lookup"
        /\ req[r].countT = "query"
        /\ req[r].monthly >= 0 /\ req[r].daily >= 0 /\ req[r].hourly >= 0
        /\ IF ~Constructs(CountFields, count)
           THEN /\ req' = [req EXCEPT ![r] = Raised(r)]
                /\ UNCHANGED CACHE
           ELSE /\ CACHE' = MemSetStore(CACHE, DefaultMaxSize,
                                        CountKey(engine, req[r].path, req[r].product),
                                        count, RULE_CACHING_EXPIRATION_IN_SECONDS, now)
                /\ req' = [req EXCEPT ![r].countT = "done", ![r].count = count]
        /\ UNCHANGED <<contractVars, now, engine, rules, usage, prior, overlap>>

\* assert_capacity once both tasks are done, and the middleware's answer to a
\* RateLimitException: 429, and the request goes no further.
Decide(r) ==
    LET reason == DecideReason(req[r].rule, req[r].count) IN
    /\ req[r].pc = "lookup"
    /\ req[r].ruleT = "done"
    /\ req[r].countT = "done"
    /\ IF reason = "Allow"
       THEN req' = [req EXCEPT ![r].pc = "handler", ![r].decision = reason,
                               ![r].hour = hour_key(now)]
       ELSE req' = [req EXCEPT ![r].pc = "done", ![r].decision = reason,
                               ![r].status = 429, ![r].hour = hour_key(now)]
    /\ UNCHANGED <<contractVars, now, engine, CACHE, rules, usage, prior, overlap>>

\* call_next(request): the handler answers or raises.  modules' rate limiter
\* and the request logger go on to the recorder in both cases; http_py's rate
\* limiter and the whitelist path of all three return what the handler gave.
Handler(r, raises) ==
    /\ req[r].pc = "handler"
    /\ req' = [req EXCEPT ![r].handled = TRUE,
                          ![r].status = IF raises THEN 500 ELSE 200,
                          ![r].pc = IF \/ engine = "modules" /\ req[r].decision = "Allow"
                                       \/ engine = "request_logger"
                                              /\ req[r].decision = "Logged"
                                    THEN "track" ELSE "done"]
    /\ UNCHANGED <<contractVars, now, engine, CACHE, rules, usage, prior, overlap>>

\* track_request: save_rate_limiter_request inserts the usage row; the request
\* logger's save_request inserts into a table of its own.
Track(r) ==
    /\ req[r].pc = "track"
    /\ usage' = IF engine = "modules"
                THEN UsageInsert(usage, UsageRow(req[r].path, NoKey, now))
                ELSE usage
    /\ req' = [req EXCEPT ![r].pc = "done", ![r].tracked = @ + 1]
    /\ UNCHANGED <<contractVars, now, engine, CACHE, rules, prior, overlap>>

\* The recorder's INSERT meets PoolTimeout: save_request and
\* save_rate_limiter_request log it and raise it again, and the middleware,
\* which awaits the recorder outside any try, is left with it.
TrackFails(r) ==
    /\ req[r].pc = "track"
    /\ req' = [req EXCEPT ![r].pc = "done", ![r].tracked = @ + 1,
                          ![r].recfail = IF req[r].status = 200 THEN "returned" ELSE "raised",
                          ![r].status = 500]
    /\ UNCHANGED <<contractVars, now, engine, CACHE, rules, usage, prior, overlap>>

\* The request logger after call_next returned: "response_body = chunk.decode()"
\* on the first chunk of the body raises UnicodeDecodeError when the chunk is
\* not UTF-8 text, and the middleware is left before save_request.
BodyUndecodable(r) ==
    /\ engine = "request_logger"
    /\ req[r].pc = "track"
    /\ req[r].status = 200
    /\ req' = [req EXCEPT ![r].pc = "done", ![r].status = 500]
    /\ UNCHANGED <<contractVars, now, engine, CACHE, rules, usage, prior, overlap>>

\* The window keys of the three count queries, computed off the clock; the
\* step keeps the reading before it for comparison.
WindowKeys(t) == [at |-> t, month |-> month_key(t), day |-> day_key(t), hour |-> hour_key(t)]

ReadWindowKeys ==
    /\ last' = Step("window_keys", NoKey,
                     IF last.op = "window_keys" THEN last.result ELSE None,
                     WindowKeys(now), now)
    /\ UNCHANGED <<quotaVars, backend, now, memVars, dbVars, redisVars>>

\* Time passes between two readings.
Elapse ==
    /\ \E t \in WindowInstants : t > now /\ now' = t
    /\ UNCHANGED <<quotaVars, contractVars>>

\* ---- the lookups statement by statement, on one event loop
\* The requests of a process are coroutines of one event loop: the loop runs
\* one of them until it awaits, then picks another that is ready.  The
\* positions of fetch_rate_limiter_rule: "get:read" and "get:pop" are the two
\* halves of CACHE.get (the dict lookup, the pop of an expired item), "query"
\* the awaited connection and SELECT, "set:sweep" and "set:insert" the two
\* halves of CACHE.set (the capacity sweep, the assignment).
MidOperation == {"get:pop", "set:insert"}

\* Where the coroutine hands the loop back: "async with ...connection()",
\* "await cur.execute", "await cur.fetchone".  The methods of InMemoryCache are
\* plain "def"s without an await.
Suspends_anywhere(pc) == TRUE

Suspends(pc) == pc = "query"

Running == {s \in Reqs : req[s].run}

\* The loop starts the coroutine of a new request.
LoopStart(r, path) ==
    /\ engine = "modules"
    /\ Running = {}
    /\ req[r].pc = "new"
    /\ \A s \in Reqs : s < r => req[s].pc # "new"
    /\ req' = [req EXCEPT ![r] = [NoReq EXCEPT !.pc = "get:read", !.path = path,
                                               !.product = Product, !.run = TRUE]]
    /\ UNCHANGED <<contractVars, now, engine, CACHE, rules, usage, prior, overlap>>

\* "cache_item = self._cache.get(key)" and the two returns of get.
CacheGetRead(r) ==
    LET rk == RuleKey(engine, req[r].path, req[r].product) IN
    /\ req[r].run
    /\ req[r].pc = "get:read"
    /\ req' = [req EXCEPT
                  ![r].pc = IF rk \notin DOMAIN CACHE THEN "query"
                            ELSE IF is_cache_item_valid(CACHE[rk], now) THEN "done"
                            ELSE "get:pop",
                  ![r].rule = MemGetResult(CACHE, rk, now),
                  ![r].run = ~(rk \in DOMAIN CACHE /\ is_cache_item_valid(CACHE[rk], now))]
    /\ UNCHANGED <<contractVars, now, engine, CACHE, rules, usage, prior, overlap>>

\* "self._cache.pop(key, None)" of get.
CacheGetPop(r) ==
    /\ req[r].run
    /\ req[r].pc = "get:pop"
    /\ CACHE' = Pop(CACHE, RuleKey(engine, req[r].path, req[r].product))
    /\ req' = [req EXCEPT ![r].pc = "query"]
    /\ UNCHANGED <<contractVars, now, engine, rules, usage, prior, overlap>>

\* The running coroutine awaits and the loop is free.
Suspend(r) ==
    /\ req[r].run
    /\ Suspends(req[r].pc)
    /\ req' = [req EXCEPT ![r].run = FALSE]
    /\ UNCHANGED <<contractVars, now, engine, CACHE, rules, usage, prior, overlap>>

\* The loop resumes a coroutine; one that waited for its SELECT has the row
\* ("if not result: return None") and goes on to CACHE.set.
Resume(r) ==
    LET rows == RuleSelect(engine, rules, req[r].path, req[r].product) IN
    /\ Running = {}
    /\ ~req[r].run
    /\ req[r].pc \notin {"new", "done"}
    /\ req' = [req EXCEPT
                  ![r].run = ~(req[r].pc = "query" /\ rows = {}),
                  ![r].pc = IF req[r].pc # "query" THEN @
                            ELSE IF rows = {} THEN "done" ELSE "set:sweep",
                  ![r].rule = IF req[r].pc = "query" /\ rows # {}
                              THEN RuleKwargs(engine, CHOOSE x \in rows : TRUE) ELSE @]
    /\ UNCHANGED <<contractVars, now, engine, CACHE, rules, usage, prior, overlap>>

\* "if key not in self._cache and len(self._cache) >= self.max_size: self._clean()".
CacheSetSweep(r) ==
    /\ req[r].run
    /\ req[r].pc = "set:sweep"
    /\ CACHE' = MemSetRoom(CACHE, DefaultMaxSize,
                           RuleKey(engine, req[r].path, req[r].product), now)
    /\ req' = [req EXCEPT ![r].pc = "set:insert"]
    /\ UNCHANGED <<contractVars, now, engine, rules, usage, prior, overlap>>

\* "self._cache[key] = CacheItem(value, now_in_seconds + expiration_in_seconds)",
\* and the lookup returns.
CacheSetInsert(r) ==
    /\ req[r].run
    /\ req[r].pc = "set:insert"
    /\ CACHE' = Put(CACHE, RuleKey(engine, req[r].path, req[r].product),
                    CacheItem(req[r].rule, now + RULE_CACHING_EXPIRATION_IN_SECONDS))
    /\ req' = [req EXCEPT ![r].pc = "done", ![r].run = FALSE]
    /\ UNCHANGED <<contractVars, now, engine, rules, usage, prior, overlap>>

\* An operator adds the rule row of a path that had none (the table is written
\* outside the middleware).
RuleInsert(path, limits) ==
    /\ engine \in {"http_py", "modules"}
    /\ RuleSelect(engine, rules, path, Product) = {}
    /\ rules' = rules \cup {[path |-> path, product_name |-> Product,
                              daily_limit |-> limits.daily_limit,
                              monthly_limit |-> limits.monthly_limit,
                              hourly_limit |-> limits.hourly_limit]}
    /\ UNCHANGED <<contractVars, now, engine, CACHE, usage, req, prior, overlap>>

\* Time passes between two steps of the middleware.
Wait ==
    /\ engine \in {"http_py", "modules", "request_logger"}
    /\ \E t \in Instants : t > now /\ now' = t
    /\ UNCHANGED <<contractVars, quotaVars>>

Init ==
    /\ backend \in {"memory", "database", "redis"}
    /\ now = 0
    /\ cache = EmptyCache
    /\ last = Idle
    /\ lastSet = NoSet
    /\ dropped = NoDrop
    /\ table = EmptyCache
    /\ dbget = [c \in DbClients |-> NoCall]
    /\ rstore = EmptyCache
    /\ rprefix = [c \in RedisClients |-> <<"c">>]
    /\ rcall = [c \in RedisClients |-> RIdle]
    /\ race = [pk \in PhysKeys |-> NoRace]
    /\ tally = [pk \in PhysKeys |-> 0]
    /\ engine = "none"
    /\ CACHE = EmptyCache
    /\ rules = {}
    /\ usage = EmptyCache
    /\ req = [r \in Reqs |-> NoReq]
    /\ prior = EmptyCache
    /\ overlap = FALSE

Next ==
    \/ Tick
    \/ \E k \in Keys, v \in MemValues \cup {None}, ttl \in Ttls : MemSet(k, v, ttl)
    \/ \E k \in Keys : MemGet(k)
    \/ \E k \in Keys : MemRemoveItem(k)
    \/ \E k \in Keys : MemExists(k)
    \/ MemClear
    \/ \E k \in DbKeys, v \in Values \cup {None}, ttl \in Ttls : DbSet(k, v, ttl)
    \/ \E c \in DbClients, k \in DbKeys : DbGetBegin(c, k)
    \/ \E c \in DbClients : DbGetSelect(c)
    \/ \E c \in DbClients : DbGetDelete(c)
    \/ \E k \in DbKeys : DbRemoveItem(k)
    \/ \E k \in DbKeys : DbExists(k)
    \/ DbClear
    \/ DbCleanupExpired
    \/ \E c \in RedisClients, k \in RedisKeys, v \in Values \cup {None}, ttl \in Ttls :
          RedisSet(c, k, v, ttl)
    \/ \E c \in RedisClients, k \in RedisKeys : RedisGet(c, k)
    \/ \E c \in RedisClients, k \in RedisKeys : RedisRemoveItem(c, k)
    \/ \E c \in RedisClients, k \in RedisKeys : RedisExists(c, k)
    \/ \E c \in RedisClients : RedisClearBegin(c)
    \/ \E c \in RedisClients : RedisClearScan(c)
    \/ \E c \in RedisClients : RedisClearDelete(c)

\* The cache contract (get, set, remove_item, exists, clear) on the three
\* backends, one of them constructed.
Spec == Init /\ [][Next]_vars

\* RedisCache with the operations it has beyond the contract.
InitRedis == Init /\ backend = "redis"

NextRedis ==
    \/ Tick
    \/ \E c \in RedisClients, k \in RedisKeys, v \in NxValues \cup {None}, ttl \in NxTtls :
          RedisSet(c, k, v, ttl)
    \/ \E c \in RedisClients, k \in RedisKeys : RedisRemoveItem(c, k)
    \/ \E c \in RedisClients, k \in RedisKeys, v \in NxValues \cup {None}, ttl \in NxTtls :
          RedisSetNxCall(c, k, v, ttl)
    \/ \E c \in RedisClients : RedisSetNxExec(c)

SpecRedis == InitRedis /\ [][NextRedis]_vars

\* RedisCache instances that count on shared keys.
NextCounter ==
    \/ Tick
    \/ \E c \in RedisClients, op \in {"increment", "decrement"}, k \in RedisKeys,
          amount \in Amounts : RedisIncrCall(c, op, k, amount)
    \/ \E c \in RedisClients : RedisIncrExec(c)

SpecCounter == InitRedis /\ [][NextCounter]_vars

\* Two RedisCache instances built with different prefixes on one server, which
\* may hold a key of another program.
Prefixes == {<<"c">>, <<"c", "u">>, <<"d">>}

InitPrefix ==
    /\ backend = "redis"
    /\ now = 0
    /\ cache = EmptyCache
    /\ last = Idle
    /\ lastSet = NoSet
    /\ dropped = NoDrop
    /\ table = EmptyCache
    /\ dbget = [c \in DbClients |-> NoCall]
    /\ rstore \in {EmptyCache,
                   [pk \in {<<"k">>} |-> RedisEntry("1", MaxTime + 1, NoKey)]}
    /\ rprefix \in {f \in [RedisClients -> Prefixes] :
                        \A c, d \in RedisClients : c # d => f[c] # f[d]}
    /\ rcall = [c \in RedisClients |-> RIdle]
    /\ race = [pk \in PhysKeys |-> NoRace]
    /\ tally = [pk \in PhysKeys |-> 0]
    /\ engine = "none"
    /\ CACHE = EmptyCache
    /\ rules = {}
    /\ usage = EmptyCache
    /\ req = [r \in Reqs |-> NoReq]
    /\ prior = EmptyCache
    /\ overlap = FALSE

NextPrefix ==
    \/ Tick
    \/ \E c \in RedisClients, k \in RedisKeys, ttl \in NxTtls : RedisSet(c, k, IntOne, ttl)
    \/ \E c \in RedisClients : RedisClearBegin(c)
    \/ \E c \in RedisClients : RedisClearScan(c)
    \/ \E c \in RedisClients : RedisClearDelete(c)

SpecPrefix == InitPrefix /\ [][NextPrefix]_vars


\* The rate limiter: requests for a path with a rule, a path without one and a
\* whitelisted path, against a rule table and the usage rows of the start.
RuleChoices ==
    {[monthly_limit |-> 100, daily_limit |-> 10, hourly_limit |-> 2],
     [monthly_limit |-> 3, daily_limit |-> 2, hourly_limit |-> 1]}

InitQuota ==
    /\ backend = "memory"
    /\ now = 90060
    /\ cache = EmptyCache
    /\ last = Idle
    /\ lastSet = NoSet
    /\ dropped = NoDrop
    /\ table = EmptyCache
    /\ dbget = [c \in DbClients |-> NoCall]
    /\ rstore = EmptyCache
    /\ rprefix = [c \in RedisClients |-> <<"c">>]
    /\ rcall = [c \in RedisClients |-> RIdle]
    /\ race = [pk \in PhysKeys |-> NoRace]
    /\ tally = [pk \in PhysKeys |-> 0]
    /\ engine \in {"http_py", "modules"}
    /\ CACHE = EmptyCache
    /\ \E limits \in RuleChoices :
           rules = {[path |-> PathA, product_name |-> Product,
                     daily_limit |-> limits.daily_limit,
                     monthly_limit |-> limits.monthly_limit,
                     hourly_limit |-> limits.hourly_limit]}
    /\ \/ usage = EmptyCache
       \/ \E t \in PriorTimes, n \in 1..MaxPrior :
              usage = [row \in {UsageRow(PathA, IF engine = "http_py" THEN Product
                                                ELSE NoKey, t)} |-> n]
    /\ prior = usage
    /\ req = [r \in Reqs |-> NoReq]
    /\ overlap = FALSE

NextQuota ==
    \/ Wait
    \/ \E r \in Reqs, path \in Paths : Arrive(r, path)
    \/ \E r \in Reqs : RuleQuery(r)
    \/ \E r \in Reqs, window \in {"monthly", "daily", "hourly"} : CountQuery(r, window)
    \/ \E r \in Reqs : CountAssemble(r)
    \/ \E r \in Reqs : Decide(r)
    \/ \E r \in Reqs, raises \in BOOLEAN : Handler(r, raises)
    \/ \E r \in Reqs : Track(r)

SpecQuota == InitQuota /\ [][NextQuota]_vars

\* The window keys on their own, read at any of the instants.
InitWindow ==
    /\ backend = "memory"
    /\ now \in WindowInstants
    /\ cache = EmptyCache
    /\ last = Idle
    /\ lastSet = NoSet
    /\ dropped = NoDrop
    /\ table = EmptyCache
    /\ dbget = [c \in DbClients |-> NoCall]
    /\ rstore = EmptyCache
    /\ rprefix = [c \in RedisClients |-> <<"c">>]
    /\ rcall = [c \in RedisClients |-> RIdle]
    /\ race = [pk \in PhysKeys |-> NoRace]
    /\ tally = [pk \in PhysKeys |-> 0]
    /\ engine = "none"
    /\ CACHE = EmptyCache
    /\ rules = {}
    /\ usage = EmptyCache
    /\ req = [r \in Reqs |-> NoReq]
    /\ prior = EmptyCache
    /\ overlap = FALSE

NextWindow == ReadWindowKeys \/ Elapse

SpecWindow == InitWindow /\ [][NextWindow]_vars

\* The middleware on one or two requests: either rate limiter, or the request
\* logger.
GateReqs == {1, 2}

InitGate ==
    /\ backend = "memory"
    /\ now = 90060
    /\ cache = EmptyCache
    /\ last = Idle
    /\ lastSet = NoSet
    /\ dropped = NoDrop
    /\ table = EmptyCache
    /\ dbget = [c \in DbClients |-> NoCall]
    /\ rstore = EmptyCache
    /\ rprefix = [c \in RedisClients |-> <<"c">>]
    /\ rcall = [c \in RedisClients |-> RIdle]
    /\ race = [pk \in PhysKeys |-> NoRace]
    /\ tally = [pk \in PhysKeys |-> 0]
    /\ engine \in {"http_py", "modules", "request_logger"}
    /\ CACHE = EmptyCache
    /\ \E limits \in RuleChoices :
           rules = {[path |-> PathA, product_name |-> Product,
                     daily_limit |-> limits.daily_limit,
                     monthly_limit |-> limits.monthly_limit,
                     hourly_limit |-> limits.hourly_limit]}
    /\ \/ usage = EmptyCache
       \/ \E t \in PriorTimes, n \in 1..MaxPrior :
              usage = [row \in {UsageRow(PathA, IF engine = "http_py" THEN Product
                                                ELSE NoKey, t)} |-> n]
    /\ prior = usage
    /\ req = [r \in Reqs |-> NoReq]
    /\ overlap = FALSE

NextGate ==
    \/ Wait
    \/ \E r \in GateReqs, path \in Paths : Arrive(r, path)
    \/ \E r \in GateReqs : RuleQuery(r)
    \/ \E r \in GateReqs, window \in {"monthly", "daily", "hourly"} : CountQuery(r, window)
    \/ \E r \in GateReqs, window \in {"monthly", "daily", "hourly"} : CountQueryFails(r, window)
    \/ \E r \in GateReqs, window \in {"monthly", "daily", "hourly"} : CountQueryOrphan(r, window)
    \/ \E r \in GateReqs : CountAssemble(r)
    \/ \E r \in GateReqs : Decide(r)
    \/ \E r \in GateReqs, raises \in BOOLEAN : Handler(r, raises)
    \/ \E r \in GateReqs : Track(r)
    \/ \E r \in GateReqs : TrackFails(r)
    \/ \E r \in GateReqs : BodyUndecodable(r)

SpecGate == InitGate /\ [][NextGate]_vars

\* assert_capacity on its own: the two tasks of a request have returned a rule
\* and a count, any limits in 1..MaxCount against any counts in 0..MaxCount.
\* Paths and product names with a ':' in them: request.url.path and the
\* product_name of the query string or body are the caller's to choose.
PairPaths == {PathA, <<"/", "a", ":", "b">>}
PairProducts == {Product, <<"b", ":", "p">>}

InitPair ==
    /\ backend = "memory"
    /\ now = 90060
    /\ cache = EmptyCache
    /\ last = Idle
    /\ lastSet = NoSet
    /\ dropped = NoDrop
    /\ table = EmptyCache
    /\ dbget = [c \in DbClients |-> NoCall]
    /\ rstore = EmptyCache
    /\ rprefix = [c \in RedisClients |-> <<"c">>]
    /\ rcall = [c \in RedisClients |-> RIdle]
    /\ race = [pk \in PhysKeys |-> NoRace]
    /\ tally = [pk \in PhysKeys |-> 0]
    /\ engine = "http_py"
    /\ CACHE = EmptyCache
    /\ \E limits \in RuleChoices, pairs \in SUBSET (PairPaths \X PairProducts) :
           rules = {[path |-> pair[1], product_name |-> pair[2],
                     daily_limit |-> limits.daily_limit,
                     monthly_limit |-> limits.monthly_limit,
                     hourly_limit |-> limits.hourly_limit] : pair \in pairs}
    /\ usage = EmptyCache
    /\ prior = usage
    /\ req = [r \in Reqs |-> NoReq]
    /\ overlap = FALSE

NextPair ==
    \/ \E r \in GateReqs, path \in PairPaths, product \in PairProducts :
           ArriveWith(r, path, product)
    \/ \E r \in GateReqs : RuleQuery(r)
    \/ \E r \in GateReqs, window \in {"monthly", "daily", "hourly"} : CountQuery(r, window)
    \/ \E r \in GateReqs : CountAssemble(r)

SpecPair == InitPair /\ [][NextPair]_vars

\* No rule at the start; rows are added while requests come in.
InitRule ==
    /\ backend = "memory"
    /\ now = 90060
    /\ cache = EmptyCache
    /\ last = Idle
    /\ lastSet = NoSet
    /\ dropped = NoDrop
    /\ table = EmptyCache
    /\ dbget = [c \in DbClients |-> NoCall]
    /\ rstore = EmptyCache
    /\ rprefix = [c \in RedisClients |-> <<"c">>]
    /\ rcall = [c \in RedisClients |-> RIdle]
    /\ race = [pk \in PhysKeys |-> NoRace]
    /\ tally = [pk \in PhysKeys |-> 0]
    /\ engine \in {"http_py", "modules"}
    /\ CACHE = EmptyCache
    /\ rules = {}
    /\ usage = EmptyCache
    /\ prior = usage
    /\ req = [r \in Reqs |-> NoReq]
    /\ overlap = FALSE

NextRule ==
    \/ Wait
    \/ \E path \in {PathA, PathB}, limits \in RuleChoices : RuleInsert(path, limits)
    \/ \E r \in GateReqs, path \in Paths : Arrive(r, path)
    \/ \E r \in GateReqs : RuleQuery(r)
    \/ \E r \in GateReqs, window \in {"monthly", "daily", "hourly"} : CountQuery(r, window)
    \/ \E r \in GateReqs : CountAssemble(r)
    \/ \E r \in GateReqs : Decide(r)
    \/ \E r \in GateReqs, raises \in BOOLEAN : Handler(r, raises)
    \/ \E r \in GateReqs : Track(r)

SpecRule == InitRule /\ [][NextRule]_vars

\* Requests for three paths, any of which may have a rule.
LoopPaths == {PathA, PathB, PathW}

InitLoop ==
    /\ backend = "memory"
    /\ now = 90060
    /\ cache = EmptyCache
    /\ last = Idle
    /\ lastSet = NoSet
    /\ dropped = NoDrop
    /\ table = EmptyCache
    /\ dbget = [c \in DbClients |-> NoCall]
    /\ rstore = EmptyCache
    /\ rprefix = [c \in RedisClients |-> <<"c">>]
    /\ rcall = [c \in RedisClients |-> RIdle]
    /\ race = [pk \in PhysKeys |-> NoRace]
    /\ tally = [pk \in PhysKeys |-> 0]
    /\ engine = "modules"
    /\ CACHE = EmptyCache
    /\ \E limits \in RuleChoices, paths \in SUBSET LoopPaths :
           rules = {[path |-> path, product_name |-> Product,
                     daily_limit |-> limits.daily_limit,
                     monthly_limit |-> limits.monthly_limit,
                     hourly_limit |-> limits.hourly_limit] : path \in paths}
    /\ usage = EmptyCache
    /\ prior = usage
    /\ req = [r \in Reqs |-> NoReq]
    /\ overlap = FALSE

NextLoop ==
    \/ Wait
    \/ \E r \in Reqs, path \in LoopPaths : LoopStart(r, path)
    \/ \E r \in Reqs : CacheGetRead(r)
    \/ \E r \in Reqs : CacheGetPop(r)
    \/ \E r \in Reqs : Suspend(r)
    \/ \E r \in Reqs : Resume(r)
    \/ \E r \in Reqs : CacheSetSweep(r)
    \/ \E r \in Reqs : CacheSetInsert(r)

SpecLoop == InitLoop /\ [][NextLoop]_vars

MaxCount == 2

InitDecide ==
    /\ backend = "memory"
    /\ now = 90060
    /\ cache = EmptyCache
    /\ last = Idle
    /\ lastSet = NoSet
    /\ dropped = NoDrop
    /\ table = EmptyCache
    /\ dbget = [c \in DbClients |-> NoCall]
    /\ rstore = EmptyCache
    /\ rprefix = [c \in RedisClients |-> <<"c">>]
    /\ rcall = [c \in RedisClients |-> RIdle]
    /\ race = [pk \in PhysKeys |-> NoRace]
    /\ tally = [pk \in PhysKeys |-> 0]
    /\ engine = "modules"
    /\ CACHE = EmptyCache
    /\ rules = {}
    /\ usage = EmptyCache
    /\ prior = EmptyCache
    /\ overlap = FALSE
    /\ \E ml, dl, hl \in 1..MaxCount, mc, dc, hc \in 0..MaxCount :
           req = [r \in Reqs |->
                     IF r = 1
                     THEN [NoReq EXCEPT
                              !.pc = "lookup", !.path = PathA, !.product = Product,
                              !.ruleT = "done", !.countT = "done",
                              !.rule = RuleKwargs(engine,
                                           [path |-> PathA, product_name |-> Product,
                                            daily_limit |-> dl, monthly_limit |-> ml,
                                            hourly_limit |-> hl]),
                              !.count = CountKwargs(engine, PathA, Product, mc, dc, hc)]
                     ELSE NoReq]

NextDecide == \E r \in Reqs : Decide(r)

SpecDecide == InitDecide /\ [][NextDecide]_vars

\* ------------------------------------------------------ the cache contract
\* C1: in the in-process cache, for every key k and non-None value v, after
\* set(k, v, ttl) and while fewer than ttl seconds have elapsed, with no
\* remove_item(k), clear() or later set(k, ..), get(k) returns v and exists(k)
\* returns true, whatever happened to the other keys in between.
C1_SetThenGet ==
    backend = "memory" =>
        \A k \in Keys :
            (lastSet[k] # None /\ now < lastSet[k].expires_at) =>
                /\ MemGetResult(cache, k, now) = lastSet[k].value
                /\ MemExistsResult(cache, k, now)
                /\ (last.op = "get" /\ last.key = k) => last.result = lastSet[k].value
                /\ (last.op = "exists" /\ last.key = k) => last.result = PyTrue

\* A get returned the value set earlier, after time had passed and after
\* another key that had been set was taken out of the map.
C1_Witness ==
    /\ backend = "memory"
    /\ last.op = "get"
    /\ lastSet[last.key] # None
    /\ last.result = lastSet[last.key].value
    /\ now > 0
    /\ \E j \in Keys \ {last.key} : lastSet[j] # None /\ j \notin DOMAIN cache

\* C2: in the in-process and the persistent-store cache, once the clock has
\* reached an entry's expiry, get returns absent and exists returns false, an
\* expired value is never returned, and after the get call no entry for the
\* key is stored.  The clock of a call is the reading the call took.
C2_ExpiredIsAbsent ==
    /\ backend = "memory" =>
        /\ \A k \in DOMAIN cache :
               now >= cache[k].expires_at =>
                   /\ MemGetResult(cache, k, now) = None
                   /\ ~MemExistsResult(cache, k, now)
        /\ last.op = "get" =>
               /\ last.key \in DOMAIN cache => last.at < cache[last.key].expires_at
               /\ last.result # None =>
                      /\ last.key \in DOMAIN cache
                      /\ last.result = cache[last.key].value
        /\ (last.op = "exists" /\ last.result = PyTrue) =>
               /\ last.key \in DOMAIN cache
               /\ last.at < cache[last.key].expires_at
    /\ backend = "database" =>
        /\ \A k \in DbKeys :
               (_hash_key(k) \in DOMAIN table /\ now >= table[_hash_key(k)].expires_at)
                   => ~DbExistsResult(table, k, now)
        /\ last.op = "get" =>
               /\ _hash_key(last.key) \in DOMAIN table
                      => last.at < table[_hash_key(last.key)].expires_at
               /\ last.result # None =>
                      /\ _hash_key(last.key) \in DOMAIN table
                      /\ last.result = table[_hash_key(last.key)].value
        /\ (last.op = "exists" /\ last.result = PyTrue) =>
               /\ _hash_key(last.key) \in DOMAIN table
               /\ last.at < table[_hash_key(last.key)].expires_at

\* A get found the entry set earlier expired, returned absent and removed it.
C2_Witness ==
    /\ backend = "memory"
    /\ last.op = "get"
    /\ last.result = None
    /\ lastSet[last.key] # None
    /\ last.at >= lastSet[last.key].expires_at
    /\ last.key \in dropped.keys
    /\ last.key \notin DOMAIN cache

\* C7: of the set_with_nx calls answered on a key since it was absent, exactly
\* one returned true, every other returned false, and the value stored is the
\* one the call that returned true wrote.
C7_OneWinner ==
    \A pk \in PhysKeys :
        (race[pk].open /\ race[pk].done >= 1) =>
            /\ race[pk].won = 1
            /\ pk \in DOMAIN rstore
            /\ rstore[pk].text = race[pk].text

\* Two calls were answered on one key, and the one that returned false had
\* been made while the key was still absent.
C7_Witness ==
    \E pk \in PhysKeys :
        /\ race[pk].open
        /\ race[pk].done = 2
        /\ race[pk].won = 1
        /\ race[pk].raced
        /\ rstore[pk].text = race[pk].text

\* C8: set(k, None, ttl) raises ValueError on every backend and changes
\* nothing: no entry created or overwritten, no sweep, no command to the store.
C8_NoneRejected ==
    [][(last'.op = "set" /\ last'.arg = None) =>
           /\ last'.result = ValueError
           /\ dropped' = NoDrop
           /\ UNCHANGED <<cache, lastSet, table, dbget, rstore, rprefix, tally, rcall, race>>]_vars

\* set(k, None, ..) was refused on a full map that held an expired entry, for
\* a key the map did not hold: a set that went on would have swept.
C8_Witness ==
    /\ backend = "memory"
    /\ last.op = "set"
    /\ last.arg = None
    /\ last.result = ValueError
    /\ last.key \notin DOMAIN cache
    /\ Cardinality(DOMAIN cache) >= MaxSize
    /\ \E k \in DOMAIN cache : cache[k].expires_at <= now

C10_RemoveIdempotent ==
    [][last'.op = "remove_item" =>
           LET OnlyRemoved(before, after, key) ==
                   /\ DOMAIN after = DOMAIN before \ {key}
                   /\ \A k \in DOMAIN after : after[k] = before[k]
           IN  /\ last'.result = Ok
               /\ backend = "memory" =>
                      /\ OnlyRemoved(cache, cache', last'.key)
                      /\ MemGetResult(cache', last'.key, now') = None
                      /\ UNCHANGED <<table, rstore>>
               /\ backend = "database" =>
                      /\ OnlyRemoved(table, table', _hash_key(last'.key))
                      /\ UNCHANGED <<cache, rstore, dbget>>
               /\ backend = "redis" =>
                      /\ \E c \in RedisClients :
                             OnlyRemoved(rstore, rstore', _make_key(rprefix[c], last'.key))
                      /\ UNCHANGED <<cache, table, rcall>>]_vars

\* remove_item was called for a key the map did not hold, other keys stored.
C10_Witness ==
    /\ backend = "memory"
    /\ last.op = "remove_item"
    /\ dropped.keys = {}
    /\ DOMAIN cache # {}

\* C11: set(k, v2, ttl2) on a key that holds an entry replaces the entry in
\* full, in the in-process and in the persistent-store cache: afterwards the
\* entry is (v2, now + ttl2) whatever the old expiry was, every other key is
\* stored as before, and the capacity sweep has not run.
C11_OverwriteReplaces ==
    [][(last'.op = "set" /\ last'.result = Ok) =>
       LET k == last'.key
           v == last'.arg
           h == _hash_key(last'.key)
       IN  /\ (backend = "memory" /\ k \in DOMAIN cache) =>
                  /\ DOMAIN cache' = DOMAIN cache
                  /\ cache'[k] = lastSet'[k]
                  /\ \E ttl \in Ttls : lastSet'[k] = CacheItem(v, now + ttl)
                  /\ \A j \in DOMAIN cache \ {k} : cache'[j] = cache[j]
                  /\ ~dropped'.sweep
           /\ (backend = "database" /\ h \in DOMAIN table) =>
                  /\ DOMAIN table' = DOMAIN table
                  /\ \E ttl \in Ttls :
                         /\ DbSet(k, v, ttl)
                         /\ table'[h] = Row(k, json_loads(DbSerialize(v)), now + ttl)
                  /\ \A g \in DOMAIN table \ {h} : table'[g] = table[g]]_vars

\* A set overwrote an entry with one that expires earlier, on a full map that
\* held an expired entry under another key, and that entry is still there.
C11_Witness ==
    /\ backend = "memory"
    /\ last.op = "set"
    /\ last.result = Ok
    /\ dropped.old = "later"
    /\ Cardinality(DOMAIN cache) >= MaxSize
    /\ \E j \in DOMAIN cache \ {last.key} : cache[j].expires_at <= now

\* C12: exists(k) cleans up as get(k) does, in the in-process and in the
\* persistent-store cache: when it returns false, no entry for k is left in
\* the store (an entry found expired was deleted by the call).
C12_ExistsCleansUp ==
    (last.op = "exists" /\ last.result = PyFalse) =>
        /\ backend = "memory" => last.key \notin DOMAIN cache
        /\ backend = "database" => _hash_key(last.key) \notin DOMAIN table

C14_AtomicCounter ==
    /\ \A pk \in PhysKeys : CounterValue(rstore, pk) = tally[pk]
    /\ last.op \in {"increment", "decrement"} =>
           \E c \in RedisClients :
               LET pk == _make_key(rprefix[c], last.key)
               IN  /\ pk \in DOMAIN rstore
                   /\ last.result = [t |-> "int", v |-> ToString(tally[pk])]

\* A decrement was answered while an increment of the other client on the same
\* key, made before it, was still on its way; the counter is below zero.
C14_Witness ==
    /\ last.op = "decrement"
    /\ \E c \in RedisClients :
           /\ rcall[c].op = "increment"
           /\ rcall[c].key = last.key
           /\ tally[_make_key(rprefix[c], last.key)] < 0
           /\ last.result = [t |-> "int", v |-> ToString(tally[_make_key(rprefix[c], last.key)])]

\* C15: in the Redis and the persistent-store cache, a get(k) that follows a
\* set(k, v) the backend accepted returns a value equal to v: a non-str value
\* through the JSON codec, a str as the same str, also when its text is JSON.
C15_RoundTrip ==
    [][(/\ backend \in {"redis", "database"}
        /\ last.op = "set"
        /\ last.result = Ok
        /\ last'.op = "get"
        /\ last'.key = last.key) => last'.result = last.arg]_vars

\* ------------------------------------------------------- the quota engine
\* C16: the window keys preserve the order of time: of two readings t1 < t2
\* the month, day and hour key of the first are at most those of the second,
\* and the hour keys are equal exactly when both readings lie in one calendar
\* hour (the hours of UTC are the hours since the epoch).
C16_WindowKeysMonotone ==
    (last.op = "window_keys" /\ last.arg # None /\ last.arg.at < last.result.at) =>
        /\ last.arg.month <= last.result.month
        /\ last.arg.day <= last.result.day
        /\ last.arg.hour <= last.result.hour
        /\ (last.arg.hour = last.result.hour)
               <=> (last.arg.at \div 3600 = last.result.at \div 3600)

\* Two readings were taken a second apart on the two sides of a new year: the
\* month number and the hour of the day went down, the keys went up.
C16_Witness ==
    /\ last.op = "window_keys"
    /\ last.arg # None
    /\ last.result.at = last.arg.at + 1
    /\ last.arg.month % 100 = 12
    /\ last.result.month % 100 = 1
    /\ last.arg.hour % 100 = 23
    /\ last.result.hour % 100 = 0
    /\ last.arg.hour < last.result.hour

\* C17: a request for a whitelisted path goes straight to the handler and gets
\* the handler's answer: no service context is built for it, no rule or count
\* lookup is made, its steps leave the in-process cache and the usage table as
\* they are, and it is never answered 429.
C17_WhitelistBypass ==
    [][\A r \in Reqs :
           (req'[r].path \in path_whitelist) =>
               /\ ~req'[r].ctx
               /\ req'[r].ruleT = "none" /\ req'[r].rule = None
               /\ req'[r].countT = "none" /\ req'[r].count = None
               /\ req'[r].decision = "Whitelisted"
               /\ req'[r].pc \in {"handler", "done"}
               /\ req'[r].pc = "done" => req'[r].handled /\ req'[r].status \in {200, 500}
               /\ req'[r] # req[r] => UNCHANGED <<CACHE, usage>>]_vars

\* A whitelisted request got the handler's answer under the engine that rejects
\* a path without a rule, and its path has no rule.
C17_Witness ==
    \E r \in Reqs :
        /\ req[r].path \in path_whitelist
        /\ req[r].pc = "done"
        /\ req[r].handled
        /\ req[r].status = 200
        /\ engine = "modules"
        /\ RuleSelect(engine, rules, req[r].path, req[r].product) = {}
        /\ \E s \in Reqs : req[s].status = 429

\* C18: when one of the three count sub-queries of a request fails with a pool
\* timeout, the count lookup fails with it: no count is built for the request
\* (the failed window is not taken as zero), the failing step stores nothing
\* in the cache, the request is neither allowed nor rejected for quota, and
\* the handler is not invoked; nothing but the answers of its sibling
\* sub-queries changes for the request afterwards.
C18_TimeoutPropagates ==
    [][\A r \in Reqs :
           (req'[r].failed # "") =>
               /\ req'[r].decision = "PoolTimeout"
               /\ req'[r].pc = "done"
               /\ req'[r].count = None
               /\ req'[r][req'[r].failed] = -1
               /\ req'[r].status \notin {200, 429}
               /\ ~req'[r].handled
               /\ req[r].failed = "" => UNCHANGED <<CACHE, usage>>
               /\ req[r].failed # "" =>
                      [req'[r] EXCEPT !.monthly = -1, !.daily = -1, !.hourly = -1] =
                          [req[r] EXCEPT !.monthly = -1, !.daily = -1, !.hourly = -1]]_vars

\* The hourly sub-query of a request timed out after the monthly and the daily
\* one had answered and the rule had been found; no count is cached.
C18_Witness ==
    \E r \in Reqs :
        /\ req[r].failed = "hourly"
        /\ req[r].monthly >= 0
        /\ req[r].daily >= 0
        /\ req[r].rule # None
        /\ req[r].pc = "done"
        /\ CountKey(engine, req[r].path, req[r].product) \notin DOMAIN CACHE
        /\ RuleKey(engine, req[r].path, req[r].product) \in DOMAIN CACHE

\* C19: a request the quota engine rejects (no rule, or a ceiling met) still
\* goes through the usage recorder: when it has been answered 429, the
\* recorder has been called for it once.
C19_RejectIsRecorded ==
    \A r \in Reqs :
        (req[r].pc = "done" /\ req[r].status = 429) => req[r].tracked = 1

\* C20: for a request that is not whitelisted and has reached the handler, the
\* recorder is called exactly once by the time the middleware is done with
\* it, whether the handler raised or returned, and never more than once.
C20_RecordedExactlyOnce ==
    \A r \in Reqs :
        /\ req[r].tracked <= 1
        /\ (req[r].pc = "done" /\ req[r].handled /\ req[r].path \notin path_whitelist)
               => req[r].tracked = 1

\* C21: when the recorder's own persistence fails after the handler has
\* produced a response, the middleware still gives that response to the
\* caller: the failure does not turn the answer into an error.
C21_RecorderFailureHidden ==
    \A r \in Reqs :
        (req[r].pc = "done" /\ req[r].recfail = "returned") => req[r].status = 200

\* C22: with a rule and a count record at hand, the request is rejected
\* exactly when some count has reached its limit (equal counts as reached),
\* and allowed exactly when every count is strictly below its limit.
C22_RejectIffLimitReached ==
    \A r \in Reqs :
        (req[r].decision # "" /\ req[r].rule # None /\ req[r].count # None) =>
            LET below == /\ req[r].count.monthly_count < req[r].rule.monthly_limit
                         /\ req[r].count.daily_count < req[r].rule.daily_limit
                         /\ req[r].count.hourly_count < req[r].rule.hourly_limit
            IN  /\ (req[r].status = 429) <=> ~below
                /\ (req[r].decision = "Allow") <=> below

\* A request whose hourly count equals its hourly limit, the other two counts
\* below theirs, was rejected.
C22_Witness ==
    \E r \in Reqs :
        /\ req[r].status = 429
        /\ req[r].rule # None /\ req[r].count # None
        /\ req[r].count.hourly_count = req[r].rule.hourly_limit
        /\ req[r].count.daily_count < req[r].rule.daily_limit
        /\ req[r].count.monthly_count < req[r].rule.monthly_limit

\* C23: the first request for a pair that has a rule and no recorded usage
\* is allowed (no lookup of it having met a pool timeout).
C23_FirstRequestAllowed ==
    \A r \in Reqs :
        (/\ engine \in {"http_py", "modules"}
         /\ req[r].pc = "done"
         /\ req[r].path \notin path_whitelist
         /\ RuleSelect(engine, rules, req[r].path, req[r].product) # {}
         /\ prior = EmptyCache
         /\ req[r].failed = ""
         /\ \A q \in Reqs \ {r} : req[q].pc = "new") =>
            req[r].decision = "Allow"

\* C24: once assert_capacity has raised for a request, none of the lookups
\* it started runs any more: every sub-query has finished or been cancelled,
\* so none of them completes a query afterwards.
C24_NoLookupOutlivesRequest ==
    [][\A r \in Reqs :
          req[r].pc = "done" =>
              /\ req'[r].monthly = req[r].monthly
              /\ req'[r].daily = req[r].daily
              /\ req'[r].hourly = req[r].hourly
              /\ req'[r].rule = req[r].rule]_vars

\* C25: the count lookup is read-through with a time to live of 300 s.  A
\* lookup that missed and whose three sub-queries have answered stores the
\* composite of the three counts under "count:{path}:{product}", to expire
\* 300 s later; a lookup that finds an unexpired entry under that key takes
\* its value and runs no sub-query; a lookup that finds none, or an expired
\* one, goes to the store.
C25_CountReadThrough ==
    [][\A r \in Reqs :
          LET ck == <<"count:">> \o req'[r].path \o <<":">> \o req'[r].product IN
          /\ (/\ req[r].pc = "lookup" /\ req[r].countT = "query" /\ req[r].ruleT = "done"
               /\ req[r].monthly >= 0 /\ req[r].daily >= 0 /\ req[r].hourly >= 0
               /\ req'[r].countT # "query") =>
                  /\ ck \in DOMAIN CACHE'
                  /\ CACHE'[ck].expires_at = now + RULE_CACHING_EXPIRATION_IN_SECONDS
                  /\ CACHE'[ck].value.monthly_count = req[r].monthly
                  /\ CACHE'[ck].value.daily_count = req[r].daily
                  /\ CACHE'[ck].value.hourly_count = req[r].hourly
                  /\ req'[r].count = CACHE'[ck].value
          /\ (req[r].pc = "new" /\ req'[r].pc = "lookup") =>
                  IF ck \in DOMAIN CACHE /\ is_cache_item_valid(CACHE[ck], now)
                  THEN req'[r].countT = "done" /\ req'[r].count = CACHE[ck].value
                  ELSE req'[r].countT = "query"
          /\ (req[r].countT = "done" /\ req[r].pc = "lookup") =>
                  /\ req'[r].monthly = req[r].monthly
                  /\ req'[r].daily = req[r].daily
                  /\ req'[r].hourly = req[r].hourly]_vars

C28_DeleteOnlyExpiredRow ==
    [][\A c \in DbClients :
          (backend = "database" /\ dbget[c].stage = "delete" /\ dbget'[c].stage = "idle") =>
              LET h == _hash_key(dbget[c].key) IN
              (h \in DOMAIN table /\ ~DbExpired(table[h], now)) =>
                  (h \in DOMAIN table' /\ table'[h] = table[h])]_vars

\* C29: two requests for different (path, product) pairs never use the same
\* cache key, neither for the rule nor for the count, ':' in the path or in
\* the product name included.
C29_PairsNeverShareKey ==
    \A r, s \in Reqs :
        (/\ req[r].pc # "new" /\ req[s].pc # "new"
         /\ <<req[r].path, req[r].product>> # <<req[s].path, req[s].product>>) =>
            /\ RuleKey(engine, req[r].path, req[r].product) #
                   RuleKey(engine, req[s].path, req[s].product)
            /\ CountKey(engine, req[r].path, req[r].product) #
                   CountKey(engine, req[s].path, req[s].product)

\* C30: a missing rule is never cached.  A rule lookup that finds no row
\* returns None and leaves the cache as it was, no cache entry exists for a
\* pair that has no row, a lookup that finds no entry goes to the store, and
\* a lookup that goes to the store once the row is there returns the rule of
\* that row.
C30_MissingRuleNotCached ==
    [][/\ \A path \in Paths :
              RuleKey(engine, path, Product) \in DOMAIN CACHE =>
                  RuleSelect(engine, rules, path, Product) # {}
       /\ \A r \in Reqs :
              LET rows == RuleSelect(engine, rules, req[r].path, req[r].product)
                  asked == /\ req[r].pc = "lookup"
                           /\ req[r].ruleT = "query"
                           /\ req'[r].ruleT # "query"
                           /\ req[r].monthly = -1
              IN  /\ (asked /\ rows = {}) =>
                         /\ req'[r].ruleT = "done"
                         /\ req'[r].rule = None
                         /\ CACHE' = CACHE
                  /\ (asked /\ rows # {}) =>
                         /\ req'[r].ruleT = "done"
                         /\ req'[r].rule # None
                         /\ \E row \in rows :
                                /\ req'[r].rule.hourly_limit = row.hourly_limit
                                /\ req'[r].rule.daily_limit = row.daily_limit
                                /\ req'[r].rule.monthly_limit = row.monthly_limit
                  /\ (/\ req[r].pc = "new" /\ req'[r].pc = "lookup"
                      /\ RuleKey(engine, req'[r].path, req'[r].product) \notin DOMAIN CACHE) =>
                         req'[r].ruleT = "query"]_vars

\* C3: with the rule {hourly 2, daily 10, monthly 100} for the pair and no
\* usage before, three non-whitelisted requests for the pair that come one
\* after the other within the same calendar hour (both clock readings of the
\* model lie in one) are decided Allow, Allow, Reject with the hourly reason.
C3_ThirdRejectedHourly ==
    (/\ \E row \in rules : /\ row.path = PathA
                          /\ row.hourly_limit = 2
                          /\ row.daily_limit = 10
                          /\ row.monthly_limit = 100
     /\ prior = EmptyCache
     /\ ~overlap
     /\ \A r \in 1..3 : req[r].pc = "done" /\ req[r].path = PathA) =>
        /\ req[1].decision = "Allow"
        /\ req[2].decision = "Allow"
        /\ req[3].decision = "Hourly"

\* C4: a non-whitelisted request for a pair without a rule is rejected with
\* the rule-not-found reason whatever the counts: the middleware answers 429
\* and the handler is not invoked.
C4_NoRuleRejected ==
    \A r \in Reqs :
        (/\ req[r].pc = "done"
         /\ req[r].path \notin path_whitelist
         /\ RuleSelect(engine, rules, req[r].path, req[r].product) = {}) =>
            /\ req[r].decision = "RuleNotFound"
            /\ req[r].status = 429
            /\ ~req[r].handled

\* C5: the decision tests the ceilings in the order monthly, daily, hourly and
\* reports the first one met: monthly whenever the monthly count meets its
\* limit, daily only when monthly is not met, hourly only when neither is.
C5_PriorityOrder ==
    \A r \in Reqs :
        (req[r].decision \in {"Allow", "Monthly", "Daily", "Hourly"}) =>
            LET monthly == req[r].count.monthly_count >= req[r].rule.monthly_limit
                daily == req[r].count.daily_count >= req[r].rule.daily_limit
                hourly == req[r].count.hourly_count >= req[r].rule.hourly_limit
            IN  /\ monthly => req[r].decision = "Monthly"
                /\ (~monthly /\ daily) => req[r].decision = "Daily"
                /\ (~monthly /\ ~daily /\ hourly) => req[r].decision = "Hourly"
                /\ (~monthly /\ ~daily /\ ~hourly) => req[r].decision = "Allow"

\* A request met its monthly, daily and hourly ceilings at once and was
\* rejected with the monthly reason.
C5_Witness ==
    \E r \in Reqs :
        /\ req[r].decision = "Monthly"
        /\ req[r].status = 429
        /\ req[r].count.daily_count >= req[r].rule.daily_limit
        /\ req[r].count.hourly_count >= req[r].rule.hourly_limit

\* C6: however the requests for one pair interleave, those that receive Allow
\* within one calendar hour are never more than the hourly limit of the rule.
C6_AllowsWithinHourlyLimit ==
    \A row \in rules :
        \A h \in {req[r].hour : r \in Reqs} :
            Cardinality({r \in Reqs : /\ req[r].decision = "Allow"
                                      /\ req[r].path = row.path
                                      /\ req[r].hour = h}) <= row.hourly_limit

====
